---------------------------- MODULE Spec2Model ----------------------------
(***************************************************************************)
(* IAMRoleAuditor (security_monkey/auditors/iam/iam_role.py): the two      *)
(* trust-policy checks, check_star_assume_role_policy and                  *)
(* check_assume_role_from_unknown_account, run over one role item.         *)
(*                                                                         *)
(* JSON values of the item's config are tagged records [t, v]; a dict is   *)
(* the ordered sequence of its <<key, value>> pairs.                       *)
(***************************************************************************)
EXTENDS Naturals, Sequences, FiniteSets, TLC

VARIABLES
    config,        \* iamrole_item.config
    registry,      \* the Account table read by Account.query
    audit_issues,  \* iamrole_item.audit_issues
    pc,            \* per check method: "idle", "running", "done", "raised"
    pos,           \* per check method: <<statement index, Principal.AWS entry index>>
    exc,           \* per check method: the exception that left it, "" if none
    runs           \* number of check-method invocations so far

vars == <<config, registry, audit_issues, pc, pos, exc, runs>>

(***************************** bounds *************************************)
MaxEntries == 2      \* longest Principal.AWS list
MaxStatements == 2   \* longest Statement list built from CoreStatements
MaxRuns == 3         \* invocations of check methods on the item

(***************************** JSON values ********************************)
Str(s) == [t |-> "str", v |-> s]
Num(n) == [t |-> "num", v |-> n]
List(q) == [t |-> "list", v |-> q]
Dict(q) == [t |-> "dict", v |-> q]
Null == [t |-> "null", v |-> 0]

IsDict(x) == x.t = "dict"
IsList(x) == x.t = "list"
IsStr(x) == x.t = "str"

\* Python truth value: None, "", 0, [] and {} are false.
Truthy(x) ==
    CASE x.t = "null" -> FALSE
      [] x.t = "str" -> x.v # ""
      [] x.t = "num" -> x.v # 0
      [] x.t = "list" -> x.v # <<>>
      [] x.t = "dict" -> x.v # <<>>

HasKey(d, k) == \E i \in DOMAIN d.v : d.v[i][1] = k

\* dict.get(k, default)
Get(d, k, default) ==
    IF HasKey(d, k)
    THEN d.v[CHOOSE i \in DOMAIN d.v : d.v[i][1] = k][2]
    ELSE default

RECURSIVE json_dumps(_)
RECURSIVE JoinItems(_, _)
RECURSIVE JoinPairs(_, _)

JoinItems(q, i) ==
    IF i > Len(q) THEN ""
    ELSE json_dumps(q[i]) \o (IF i < Len(q) THEN ", " ELSE "") \o JoinItems(q, i + 1)

JoinPairs(q, i) ==
    IF i > Len(q) THEN ""
    ELSE "\"" \o q[i][1] \o "\": " \o json_dumps(q[i][2])
         \o (IF i < Len(q) THEN ", " ELSE "") \o JoinPairs(q, i + 1)

\* json.dumps(value)
json_dumps(x) ==
    CASE x.t = "null" -> "null"
      [] x.t = "str" -> "\"" \o x.v \o "\""
      [] x.t = "num" -> ToString(x.v)
      [] x.t = "list" -> "[" \o JoinItems(x.v, 1) \o "]"
      [] x.t = "dict" -> "{" \o JoinPairs(x.v, 1) \o "}"

(***************************** strings ************************************)
Root222 == "arn:aws:iam::222222222222:root"
Root333 == "arn:aws:iam::333333333333:root"
Role333 == "arn:aws:iam::333333333333:role/admin"
Bucket == "arn:aws:s3:::logs"
ShortAcct == "arn:aws:iam::12345:root"
NotAnArn == "not-an-arn"

\* The ":"-separated fields of the strings the model uses.
Split(s) ==
    CASE s = Root222 -> <<"arn", "aws", "iam", "", "222222222222", "root">>
      [] s = Root333 -> <<"arn", "aws", "iam", "", "333333333333", "root">>
      [] s = Role333 -> <<"arn", "aws", "iam", "", "333333333333", "role/admin">>
      [] s = Bucket -> <<"arn", "aws", "s3", "", "", "logs">>
      [] s = ShortAcct -> <<"arn", "aws", "iam", "", "12345", "root">>
      [] s = "sts:AssumeRole" -> <<"sts", "AssumeRole">>
      [] OTHER -> <<s>>

\* The characters of the strings the model iterates over.
Chars(s) ==
    CASE s = "" -> <<>>
      [] s = "Allow" -> <<"A", "l", "l", "o", "w">>
      [] OTHER -> <<s>>

TwelveDigits == {"111111111111", "222222222222", "333333333333"}


(***************************** collaborators ******************************)
\* ARN(input): always a value, never raises; error is set when the input is
\* not a resource name arn:partition:service:region:account:resource.
ARN(input) ==
    IF ~IsStr(input)
    THEN [error |-> TRUE, account_number |-> ""]
    ELSE LET f == Split(input.v) IN
         IF /\ Len(f) = 6
            /\ f[1] = "arn"
            /\ f[5] \in TwelveDigits \cup {""}
            /\ f[6] # ""
         THEN [error |-> FALSE, account_number |-> f[5]]
         ELSE [error |-> TRUE, account_number |-> ""]

\* Account.query.filter(Account.identifier == n).first(): "row" when an
\* account with that identifier exists, "none" when it does not. With the
\* registry absent the query raises, or, where it can still be sent, finds
\* no row.
AccountQuery(reg, n) ==
    IF ~reg.present THEN (IF reg.raises THEN "error" ELSE "none")
    ELSE IF n \in reg.ids THEN "row" ELSE "none"

\* Auditor.add_issue(score, issue, item, notes): a finding already on the
\* item with the same tag and evidence is not added again.
add_issue(issues, score, tag, notes) ==
    IF \E i \in DOMAIN issues : issues[i].issue = tag /\ issues[i].notes = notes
    THEN issues
    ELSE Append(issues, [score |-> score, issue |-> tag, notes |-> notes])

i_am_singular == "IAM Role"

(***************************** the check methods **************************)
StarTag == i_am_singular \o " allows assume-role from anyone"

UnknownTag(account_number) ==
    "IAM Role allows assume-role from an " \o "Unknown Account (" \o account_number \o ")"

\* Mutant: an Action list holding "sts:AssumeRole" matches too.
IsAllowAssumeRole_anyaction(statement) ==
    LET action == Get(statement, "Action", Null)
        effect == Get(statement, "Effect", Null)
    IN /\ Truthy(action)
       /\ \/ action = Str("sts:AssumeRole")
          \/ IsList(action) /\ \E i \in DOMAIN action.v : action.v[i] = Str("sts:AssumeRole")
       /\ Truthy(effect) /\ effect = Str("Allow")

\* action and action == "sts:AssumeRole", effect and effect == "Allow"
IsAllowAssumeRole(statement) ==
    LET action == Get(statement, "Action", Null)
        effect == Get(statement, "Effect", Null)
    IN /\ Truthy(action) /\ action = Str("sts:AssumeRole")
       /\ Truthy(effect) /\ effect = Str("Allow")

\* The value check_statement reads as aws, Null when it returns before.
PrincipalAWS(statement) ==
    IF ~IsAllowAssumeRole(statement) THEN Null
    ELSE LET principal == Get(statement, "Principal", Null) IN
         IF ~Truthy(principal) THEN Null
         ELSE IF IsDict(principal) THEN Get(principal, "AWS", Null)
         ELSE Null

\* The entries the for loop over aws visits (none when aws is no list).
LoopEntries(aws) == IF Truthy(aws) /\ IsList(aws) THEN aws.v ELSE <<>>

StarEntry(entry) == entry = Str("*")

\* Mutant: the evidence is the matching entry, not the statement.
StarNotes_entry(statement, entry) == json_dumps(entry)

\* notes=json.dumps(statement)
StarNotes(statement, entry) == json_dumps(statement)

\* Mutant: only the literal "*" is looked for, a list is not.
star_check_statement_literal(statement, e, issues) ==
    LET aws == PrincipalAWS(statement) IN
    IF Truthy(aws) /\ aws = Str("*")
    THEN add_issue(issues, 10, StarTag, StarNotes(statement, aws))
    ELSE issues

\* Mutant: the finding is appended to the item's issues, not handed to add_issue.
star_check_statement_append(statement, e, issues) ==
    LET aws == PrincipalAWS(statement) IN
    IF Truthy(aws) /\ (aws = Str("*") \/ (IsList(aws) /\ StarEntry(aws.v[e])))
    THEN Append(issues, [score |-> 10, issue |-> StarTag, notes |-> StarNotes(statement, aws)])
    ELSE issues

\* check_star_assume_role_policy.check_statement, one unit of it: the whole
\* statement when aws is not a list, else the e-th turn of the for loop.
star_check_statement(statement, e, issues) ==
    LET aws == PrincipalAWS(statement) IN
    IF Truthy(aws) /\ aws = Str("*")
    THEN add_issue(issues, 10, StarTag, StarNotes(statement, aws))
    ELSE IF Truthy(aws) /\ IsList(aws)
    THEN IF StarEntry(aws.v[e])
         THEN add_issue(issues, 10, StarTag, StarNotes(statement, aws.v[e]))
         ELSE issues
    ELSE issues

\* not arn.error and arn.account_number
HasAccount(arn) == ~arn.error /\ arn.account_number # ""

\* Mutant: the test is inverted, if account.
NoAccount_inverted(account) == account = "row"

\* if not account
NoAccount(account) == account = "none"

\* The lookup of a parsed arn and the issue raised on an unknown account: the
\* issues after it and the exception it leaves with ("" when it returns).
account_issue(arn, statement, reg, issues) ==
    IF ~HasAccount(arn) THEN [issues |-> issues, exc |-> ""]
    ELSE LET account == AccountQuery(reg, arn.account_number) IN
         IF account = "error"
         THEN [issues |-> issues, exc |-> "OperationalError"]
         ELSE IF NoAccount(account)
         THEN [issues |-> add_issue(issues, 10, UnknownTag(arn.account_number),
                                    json_dumps(statement)),
               exc |-> ""]
         ELSE [issues |-> issues, exc |-> ""]

\* Mutant: a parse error is raised, not printed.
check_account_in_arn_strict(input, statement, reg, issues) ==
    IF ARN(input).error
    THEN [issues |-> issues, exc |-> "ValueError"]
    ELSE account_issue(ARN(input), statement, reg, issues)

\* check_account_in_arn(input); a parse error is printed and skipped.
check_account_in_arn(input, statement, reg, issues) ==
    account_issue(ARN(input), statement, reg, issues)

\* check_assume_role_from_unknown_account.check_statement, one unit of it.
unknown_check_statement(statement, e, reg, issues) ==
    LET aws == PrincipalAWS(statement) IN
    IF Truthy(aws) /\ IsList(aws)
    THEN check_account_in_arn(aws.v[e], statement, reg, issues)
    ELSE IF Truthy(aws)
    THEN check_account_in_arn(aws, statement, reg, issues)
    ELSE [issues |-> issues, exc |-> ""]

\* Mutant: a single statement is not wrapped into a list.
Normalize_nowrap(statement) == statement

\* if type(statement) is dict: statement = [statement]
Normalize(statement) == IF IsDict(statement) THEN List(<<statement>>) ELSE statement

\* What a for loop over the value visits: the members of a list, the
\* characters of a string, the keys of a dict; None and numbers raise.
Iterate(x) ==
    CASE IsList(x) -> [ok |-> TRUE, exc |-> "", items |-> x.v]
      [] IsStr(x) ->
           [ok |-> TRUE, exc |-> "",
            items |-> [i \in DOMAIN Chars(x.v) |-> Str(Chars(x.v)[i])]]
      [] IsDict(x) ->
           [ok |-> TRUE, exc |-> "", items |-> [i \in DOMAIN x.v |-> Str(x.v[i][1])]]
      [] OTHER -> [ok |-> FALSE, exc |-> "TypeError", items |-> <<>>]

\* iamrole_item.config.get("AssumeRolePolicyDocument", {}).get("Statement", []),
\* normalized: [ok, items] with the items the for loop visits, or
\* [ok = FALSE, exc] when the lookup or the iteration raises.
statements_of(cfg) ==
    LET assume_role_policy == Get(cfg, "AssumeRolePolicyDocument", Dict(<<>>)) IN
    IF ~IsDict(assume_role_policy)
    THEN [ok |-> FALSE, exc |-> "AttributeError", items |-> <<>>]
    ELSE Iterate(Normalize(Get(assume_role_policy, "Statement", List(<<>>))))

(***************************** inputs *************************************)
SeqsUpTo(S, n) == UNION {[1..k -> S] : k \in 0..n}

Entries == {Str("*"), Str(Root222), Str(Root333), Str(Role333), Str(NotAnArn)}

AwsValues ==
    {Str("*"), Str(Root222), Str(Root333), Str(NotAnArn), Str(Bucket),
     Str(ShortAcct), Str(""), Num(42)}
    \cup {List(q) : q \in SeqsUpTo(Entries, MaxEntries)}

Statement(effect, principal, action) ==
    Dict(<< <<"Effect", effect>>, <<"Principal", principal>>, <<"Action", action>> >>)

\* An Allow sts:AssumeRole statement with the given Principal.AWS.
Trust(aws) ==
    Statement(Str("Allow"), Dict(<< <<"AWS", aws>> >>), Str("sts:AssumeRole"))

StarAndUnknown == List(<<Str("*"), Str(Root333)>>)

\* Statements one attribute away from Trust(StarAndUnknown).
NearMisses ==
    {Statement(Str("Allow"), Dict(<< <<"AWS", StarAndUnknown>> >>),
               List(<<Str("sts:AssumeRole")>>)),
     Statement(Str("Allow"), Dict(<< <<"AWS", StarAndUnknown>> >>),
               Str("sts:AssumeRoleWithSAML")),
     Dict(<< <<"Effect", Str("Allow")>>,
             <<"Principal", Dict(<< <<"AWS", StarAndUnknown>> >>)>>,
             <<"NotAction", Str("sts:AssumeRole")>> >>),
     Statement(Str("Deny"), Dict(<< <<"AWS", StarAndUnknown>> >>), Str("sts:AssumeRole")),
     Dict(<< <<"Principal", Dict(<< <<"AWS", StarAndUnknown>> >>)>>,
             <<"Action", Str("sts:AssumeRole")>> >>),
     Statement(Str("Allow"), Str("*"), Str("sts:AssumeRole")),
     Statement(Str("Allow"), StarAndUnknown, Str("sts:AssumeRole")),
     Statement(Str("Allow"), Null, Str("sts:AssumeRole")),
     Statement(Str("Allow"), Dict(<< <<"Service", Str("ec2.amazonaws.com")>> >>),
               Str("sts:AssumeRole")),
     Dict(<< <<"Effect", Str("Allow")>>, <<"Action", Str("sts:AssumeRole")>> >>)}

AllStatements == {Trust(aws) : aws \in AwsValues} \cup NearMisses

\* The members of the longer Statement lists; one of them is no object.
CoreStatements ==
    {Trust(Str("*")),
     Trust(StarAndUnknown),
     Trust(Str(Role333)),
     Trust(List(<<Str(NotAnArn), Str(Root333)>>)),
     Statement(Str("Allow"), Str("*"), Str("sts:AssumeRole")),
     Num(42)}

StatementValues ==
    AllStatements
    \cup {List(<<st>>) : st \in AllStatements}
    \cup {List(q) : q \in SeqsUpTo(CoreStatements, MaxStatements)}
    \cup {Str("Allow"), Str(""), Null, Num(1)}

Document(statement) ==
    Dict(<< <<"Version", Str("2012-10-17")>>, <<"Statement", statement>> >>)

Config(assume_role_policy) ==
    Dict(<< <<"AssumeRolePolicyDocument", assume_role_policy>>,
            <<"InlinePolicies", List(<<>>)>> >>)

Configs ==
    {Config(Document(sv)) : sv \in StatementValues}
    \cup {Config(Dict(<< <<"Version", Str("2012-10-17")>> >>)),
          Config(Null),
          Dict(<< <<"InlinePolicies", List(<<>>)>> >>)}

Registries ==
    {[present |-> FALSE, raises |-> b, ids |-> {}] : b \in BOOLEAN}
    \cup {[present |-> TRUE, raises |-> FALSE, ids |-> ids] :
            ids \in {{}, {"222222222222"}, {"222222222222", "333333333333"}}}

(***************************** the state machine **************************)
Checks == {"star", "unknown"}

Init ==
    /\ config \in Configs
    /\ registry \in Registries
    /\ audit_issues = <<>>
    /\ pc = [p \in Checks |-> "idle"]
    /\ pos = [p \in Checks |-> <<1, 1>>]
    /\ exc = [p \in Checks |-> ""]
    /\ runs = 0

\* The check method p is called: it reads the trust policy's statements and
\* enters its for loop, returns at once when there is none, or raises.
Begin(p) ==
    /\ pc[p] \in {"idle", "done"}
    /\ runs < MaxRuns
    /\ runs' = runs + 1
    /\ pos' = [pos EXCEPT ![p] = <<1, 1>>]
    /\ LET st == statements_of(config) IN
       /\ pc' = [pc EXCEPT ![p] = IF ~st.ok THEN "raised"
                                   ELSE IF st.items = <<>> THEN "done"
                                   ELSE "running"]
       /\ exc' = [exc EXCEPT ![p] = st.exc]
    /\ UNCHANGED <<config, registry, audit_issues>>

\* What one unit of check_statement of check method p leaves.
Unit(p, statement, e, reg, issues) ==
    IF ~IsDict(statement)
    THEN [issues |-> issues, exc |-> "AttributeError"]
    ELSE IF p = "star"
    THEN [issues |-> star_check_statement(statement, e, issues), exc |-> ""]
    ELSE unknown_check_statement(statement, e, reg, issues)

\* Whether the for loop over aws has a turn after the e-th.
MoreEntries(statement, e) ==
    IsDict(statement) /\ e < Len(LoopEntries(PrincipalAWS(statement)))

RECURSIVE RunEntries(_, _, _, _, _)
\* check_statement of check method p from the e-th turn of its for loop on.
RunEntries(p, statement, e, reg, issues) ==
    LET r == Unit(p, statement, e, reg, issues) IN
    IF r.exc # "" \/ ~MoreEntries(statement, e) THEN r
    ELSE RunEntries(p, statement, e + 1, reg, r.issues)

RECURSIVE RunStatements(_, _, _, _, _)
\* The for loop over the statements from the s-th on.
RunStatements(p, items, s, reg, issues) ==
    IF s > Len(items) THEN [issues |-> issues, exc |-> ""]
    ELSE LET r == RunEntries(p, items[s], 1, reg, issues) IN
         IF r.exc # "" THEN r ELSE RunStatements(p, items, s + 1, reg, r.issues)

\* The check method p called on an item and run to its end without another
\* method in between: the issues after it and the exception it leaves with.
Run(p, cfg, reg, issues) ==
    LET st == statements_of(cfg) IN
    IF ~st.ok THEN [issues |-> issues, exc |-> st.exc]
    ELSE RunStatements(p, st.items, 1, reg, issues)

\* Mutant: the loop position is kept on the auditor, shared by the check methods.
Step_shared(p) ==
    /\ pc[p] = "running"
    /\ LET items == statements_of(config).items
           s == pos[p][1]
           e == pos[p][2]
           r == Unit(p, items[s], e, registry, audit_issues)
       IN /\ audit_issues' = r.issues
          /\ exc' = [exc EXCEPT ![p] = r.exc]
          /\ IF r.exc # ""
             THEN pc' = [pc EXCEPT ![p] = "raised"] /\ pos' = pos
             ELSE IF MoreEntries(items[s], e)
             THEN pc' = pc /\ pos' = [q \in Checks |-> <<s, e + 1>>]
             ELSE IF s < Len(items)
             THEN pc' = pc /\ pos' = [q \in Checks |-> <<s + 1, 1>>]
             ELSE pc' = [pc EXCEPT ![p] = "done"] /\ pos' = pos
    /\ UNCHANGED <<config, registry, runs>>

\* The check method p runs one unit of check_statement and moves on: to the
\* next Principal.AWS entry, to the next statement, or out of the method.
Step(p) ==
    /\ pc[p] = "running"
    /\ LET items == statements_of(config).items
           s == pos[p][1]
           e == pos[p][2]
           r == Unit(p, items[s], e, registry, audit_issues)
       IN /\ audit_issues' = r.issues
          /\ exc' = [exc EXCEPT ![p] = r.exc]
          /\ IF r.exc # ""
             THEN pc' = [pc EXCEPT ![p] = "raised"] /\ pos' = pos
             ELSE IF MoreEntries(items[s], e)
             THEN pc' = pc /\ pos' = [pos EXCEPT ![p] = <<s, e + 1>>]
             ELSE IF s < Len(items)
             THEN pc' = pc /\ pos' = [pos EXCEPT ![p] = <<s + 1, 1>>]
             ELSE pc' = [pc EXCEPT ![p] = "done"] /\ pos' = pos
    /\ UNCHANGED <<config, registry, runs>>

check_star_assume_role_policy == Begin("star") \/ Step("star")

check_assume_role_from_unknown_account == Begin("unknown") \/ Step("unknown")

Next == check_star_assume_role_policy \/ check_assume_role_from_unknown_account

Spec == Init /\ [][Next]_vars

(***************************** vocabulary of the claims *******************)
\* The statements the check methods' for loop visits on the item.
Items == statements_of(config).items

IssueSet(q) == {q[i] : i \in DOMAIN q}

\* The positions of the item's issues with the given tag and evidence.
IssuesFor(tag, notes) ==
    {i \in DOMAIN audit_issues :
        audit_issues[i].issue = tag /\ audit_issues[i].notes = notes}

WildcardTag == "IAM Role allows assume-role from anyone"

UnknownAccountTag(id) == "IAM Role allows assume-role from an Unknown Account (" \o id \o ")"

ActionIsAssumeRole(st) ==
    HasKey(st, "Action") /\ Get(st, "Action", Null) = Str("sts:AssumeRole")

EffectIsAllow(st) == HasKey(st, "Effect") /\ Get(st, "Effect", Null) = Str("Allow")

PrincipalIsMapping(st) == HasKey(st, "Principal") /\ IsDict(Get(st, "Principal", Null))

\* Principal.AWS of a statement, Null when there is none.
AwsOf(st) ==
    IF PrincipalIsMapping(st) /\ HasKey(Get(st, "Principal", Null), "AWS")
    THEN Get(Get(st, "Principal", Null), "AWS", Null)
    ELSE Null

\* An Allow sts:AssumeRole statement.
AllowAssumeRole(st) == IsDict(st) /\ ActionIsAssumeRole(st) /\ EffectIsAllow(st)

ListHasStar(aws) == IsList(aws) /\ \E i \in DOMAIN aws.v : aws.v[i] = Str("*")

\* An Allow sts:AssumeRole statement with "*" as, or in, Principal.AWS.
WildcardTrust(st) ==
    AllowAssumeRole(st) /\ (AwsOf(st) = Str("*") \/ ListHasStar(AwsOf(st)))

\* The Principal.AWS entries of a statement: the list's, or the single value.
AwsEntries(st) ==
    LET aws == AwsOf(st) IN
    IF IsList(aws) THEN {aws.v[i] : i \in DOMAIN aws.v}
    ELSE IF aws = Null THEN {} ELSE {aws}

\* The account identifiers the statement's Principal.AWS entries parse to.
AccountsOf(st) ==
    {ARN(x).account_number : x \in {y \in AwsEntries(st) : HasAccount(ARN(y))}}

Returned(p) == pc[p] = "done"

StatementOf(cfg) == Get(Get(cfg, "AssumeRolePolicyDocument", Dict(<<>>)), "Statement", Null)

\* The item's trust policy holds one statement, as an object.
HasPolicy ==
    /\ HasKey(config, "AssumeRolePolicyDocument")
    /\ IsDict(Get(config, "AssumeRolePolicyDocument", Null))

SingleObject == HasPolicy /\ IsDict(StatementOf(config))

\* The item has no trust policy, or its trust policy no Statement.
NoStatements ==
    \/ ~HasKey(config, "AssumeRolePolicyDocument")
    \/ /\ IsDict(Get(config, "AssumeRolePolicyDocument", Null))
       /\ ~HasKey(Get(config, "AssumeRolePolicyDocument", Null), "Statement")

\* The trust policy's Statement is a list of objects.
ObjectList ==
    /\ HasPolicy
    /\ IsList(StatementOf(config))
    /\ \A i \in DOMAIN StatementOf(config).v : IsDict(StatementOf(config).v[i])

(***************************** C1 *****************************************)
\* C1: once check_star_assume_role_policy has returned, every statement of
\* the trust policy with Action "sts:AssumeRole", Effect "Allow" and "*" as
\* Principal.AWS or in the Principal.AWS list has a severity-10 issue
\* "IAM Role allows assume-role from anyone" on the item whose evidence is
\* the serialized statement.
C1_WildcardIssueRaised ==
    Returned("star") =>
        \A s \in DOMAIN Items :
            WildcardTrust(Items[s]) =>
                \E i \in DOMAIN audit_issues :
                    audit_issues[i] = [score |-> 10, issue |-> WildcardTag,
                                       notes |-> json_dumps(Items[s])]

\* The check has returned on a two-statement policy whose second statement
\* lists "*" beside an account, and the issue carries that statement's JSON.
C1_Witness ==
    /\ Returned("star")
    /\ config = Config(Document(List(<<Trust(Str(Role333)), Trust(StarAndUnknown)>>)))
    /\ \E i \in DOMAIN audit_issues :
          /\ audit_issues[i].score = 10
          /\ audit_issues[i].issue = WildcardTag
          /\ audit_issues[i].notes =
               "{\"Effect\": \"Allow\", \"Principal\": {\"AWS\": [\"*\", "
               \o "\"arn:aws:iam::333333333333:root\"]}, \"Action\": \"sts:AssumeRole\"}"

(***************************** C2 *****************************************)
\* C2: an Allow sts:AssumeRole statement whose Principal.AWS is a list
\* containing "*" never has more than one wildcard-trust issue, and has
\* exactly one once check_star_assume_role_policy has returned, however
\* many entries of the list are "*".
C2_OneIssuePerListStatement ==
    \A s \in DOMAIN Items :
        (AllowAssumeRole(Items[s]) /\ ListHasStar(AwsOf(Items[s]))) =>
            /\ Cardinality(IssuesFor(WildcardTag, json_dumps(Items[s]))) <= 1
            /\ Returned("star") =>
                 Cardinality(IssuesFor(WildcardTag, json_dumps(Items[s]))) = 1

\* The check has returned on a statement whose list is "*" twice, with one issue.
C2_Witness ==
    /\ Returned("star")
    /\ \E s \in DOMAIN Items :
          /\ AllowAssumeRole(Items[s])
          /\ AwsOf(Items[s]) = List(<<Str("*"), Str("*")>>)
          /\ Cardinality(IssuesFor(WildcardTag, json_dumps(Items[s]))) = 1

(***************************** C3 *****************************************)
\* C3: whenever check_star_assume_role_policy has returned, after its first
\* run or a later one, each Allow sts:AssumeRole statement with "*" under
\* Principal.AWS has exactly one wildcard-trust issue, and the item holds as
\* many wildcard-trust issues as it has distinct such statements.
C3_IdempotentWildcard ==
    Returned("star") =>
        /\ \A s \in DOMAIN Items :
              WildcardTrust(Items[s]) =>
                  Cardinality(IssuesFor(WildcardTag, json_dumps(Items[s]))) = 1
        /\ Cardinality({i \in DOMAIN audit_issues : audit_issues[i].issue = WildcardTag})
             = Cardinality({Items[s] : s \in {t \in DOMAIN Items : WildcardTrust(Items[t])}})

\* The star check alone has run MaxRuns times on a policy with two distinct
\* offending statements, and the item holds two issues.
C3_Witness ==
    /\ Returned("star")
    /\ pc["unknown"] = "idle"
    /\ runs >= 3
    /\ config = Config(Document(List(<<Trust(Str("*")), Trust(StarAndUnknown)>>)))
    /\ Len(audit_issues) = 2

(***************************** C4 *****************************************)
\* C4: once check_assume_role_from_unknown_account has returned against a
\* registry, every Allow sts:AssumeRole statement has, for each account
\* identifier its Principal.AWS entries parse to that is not in the registry,
\* exactly one severity-10 issue "IAM Role allows assume-role from an Unknown
\* Account (<id>)" with the statement as evidence; and no issue on the item
\* ever names an account identifier of the registry.
C4_UnknownAccountIssues ==
    /\ \A i \in DOMAIN audit_issues :
          \A id \in registry.ids : audit_issues[i].issue # UnknownAccountTag(id)
    /\ (Returned("unknown") /\ registry.present) =>
          \A s \in DOMAIN Items :
              AllowAssumeRole(Items[s]) =>
                  \A id \in AccountsOf(Items[s]) \ registry.ids :
                      /\ Cardinality(IssuesFor(UnknownAccountTag(id),
                                               json_dumps(Items[s]))) = 1
                      /\ \A i \in IssuesFor(UnknownAccountTag(id), json_dumps(Items[s])) :
                            audit_issues[i].score = 10

\* The check has returned on a list of a known account and an unknown one,
\* and the only issue on the item names the unknown one.
C4_Witness ==
    /\ Returned("unknown")
    /\ pc["star"] = "idle"
    /\ registry = [present |-> TRUE, raises |-> FALSE, ids |-> {"222222222222"}]
    /\ config = Config(Document(Trust(List(<<Str(Root222), Str(Root333)>>))))
    /\ Len(audit_issues) = 1
    /\ audit_issues[1].issue
         = "IAM Role allows assume-role from an Unknown Account (333333333333)"

(***************************** C5 *****************************************)
\* C5: against a registry and a policy whose statements are objects,
\* check_assume_role_from_unknown_account never leaves with an exception,
\* whatever Principal.AWS entries fail to parse; once it has returned, the
\* issues with a statement as evidence are exactly those of the unknown
\* accounts its parsable entries name, so an entry that does not parse
\* contributes none and hides none, in that statement or a later one.
C5_MalformedEntrySkipped ==
    (registry.present /\ (SingleObject \/ ObjectList)) =>
        /\ pc["unknown"] # "raised"
        /\ Returned("unknown") =>
              \A s \in DOMAIN Items :
                  AllowAssumeRole(Items[s]) =>
                      {audit_issues[i].issue :
                          i \in {j \in DOMAIN audit_issues :
                                   /\ audit_issues[j].notes = json_dumps(Items[s])
                                   /\ audit_issues[j].issue # WildcardTag}}
                      = {UnknownAccountTag(id) : id \in AccountsOf(Items[s]) \ registry.ids}

\* The check has returned on a statement whose first entry does not parse
\* and whose second names an unknown account, followed by another statement
\* naming that account: both statements have their issue.
C5_Witness ==
    /\ Returned("unknown")
    /\ registry = [present |-> TRUE, raises |-> FALSE, ids |-> {"222222222222"}]
    /\ config = Config(Document(List(<<Trust(List(<<Str(NotAnArn), Str(Root333)>>)),
                                       Trust(Str(Role333))>>)))
    /\ ARN(Str(NotAnArn)).error
    /\ IssuesFor(UnknownAccountTag("333333333333"),
                 json_dumps(Trust(List(<<Str(NotAnArn), Str(Root333)>>)))) # {}
    /\ IssuesFor(UnknownAccountTag("333333333333"), json_dumps(Trust(Str(Role333)))) # {}

(***************************** C6 *****************************************)
\* The issues of the item that the check method p raises.
IssuesOf(p, q) == {x \in IssueSet(q) : (x.issue = WildcardTag) <=> (p = "star")}

\* C6: when the trust policy's Statement is a single object S, each trust
\* check leaves as it does on the policy whose Statement is the list [S]:
\* with the same issues and the same outcome. An item with no trust policy,
\* or a trust policy with no Statement, gets no issue and no exception.
C6_NormalizationEquivalence ==
    /\ SingleObject =>
          \A p \in Checks :
              pc[p] \in {"done", "raised"} =>
                  LET r == Run(p, Config(Document(List(<<StatementOf(config)>>))),
                               registry, <<>>)
                  IN /\ r.exc = exc[p]
                     /\ IssueSet(r.issues) = IssuesOf(p, audit_issues)
    /\ NoStatements => (audit_issues = <<>> /\ \A p \in Checks : pc[p] # "raised")

\* Both checks have returned on a single-object Statement and raised issues.
C6_Witness ==
    /\ SingleObject
    /\ \A p \in Checks : Returned(p)
    /\ IssuesOf("star", audit_issues) # {}
    /\ IssuesOf("unknown", audit_issues) # {}

(***************************** C7 *****************************************)
\* C7: no trust check ever leaves with an exception over the shape of the
\* trust policy, its Statement, a statement or a principal.
C7_MalformedShapesAbsorbed ==
    \A p \in Checks : exc[p] \notin {"AttributeError", "TypeError"}

C9_AbsentRegistrySkipped ==
    (~registry.present /\ (SingleObject \/ ObjectList \/ NoStatements)) =>
        /\ pc["unknown"] # "raised"
        /\ IssuesOf("unknown", audit_issues) = {}

(***************************** C10 ****************************************)
\* C10: every issue on the item has as evidence a statement of the trust
\* policy whose Action is the string "sts:AssumeRole", whose Effect is
\* "Allow" and whose Principal is a mapping, and a wildcard-trust issue one
\* with "*" under Principal.AWS: a statement with an Action list or with the
\* bare Principal "*" gets no issue from either check.
C10_OnlyExactMatches ==
    \A i \in DOMAIN audit_issues :
        \E s \in DOMAIN Items :
            /\ AllowAssumeRole(Items[s])
            /\ PrincipalIsMapping(Items[s])
            /\ audit_issues[i].notes = json_dumps(Items[s])
            /\ audit_issues[i].issue = WildcardTag => WildcardTrust(Items[s])

\* Both checks have returned on a policy of a wildcard trust statement and a
\* statement with the bare Principal "*", and only the first has an issue.
C10_Witness ==
    /\ \A p \in Checks : Returned(p)
    /\ registry.present
    /\ config = Config(Document(List(<<Statement(Str("Allow"), Str("*"), Str("sts:AssumeRole")),
                                       Trust(StarAndUnknown)>>)))
    /\ \A i \in DOMAIN audit_issues : audit_issues[i].notes = json_dumps(Trust(StarAndUnknown))
    /\ audit_issues # <<>>
=============================================================================
